---- MODULE Spec2Model ----
(***************************************************************************)
(* A model of python-resolver: the Provider that adapts a "simple" package *)
(* index to a backtracking resolver (src/resolver/__init__.py), the two    *)
(* entry points (src/resolver/__main__.py, src/resolver/mindeps/...), and  *)
(* the resolution loop the entry points hand the Provider to.              *)
(***************************************************************************)
EXTENDS Integers, Sequences, FiniteSets, TLC

VARIABLES
    index,        \* project name -> sequence of archive links of its index page
    hostPy,       \* python_version of the interpreter that runs the program
    provider,     \* "Provider" or "MinimumDependencyProvider"
    downloaded,   \* filenames present as regular files in the cache directory
    call,         \* the last Provider operation called directly, with its result
    entry,        \* "api" (direct calls), "resolver" or "mindeps" entry point
    callerPy,     \* --python_version given to mindeps (0: not given)
    projExtras,   \* --extras given to mindeps
    hashSeed,     \* the hash seed of the process: fixes the iteration order of sets
    cliReqs,      \* the requirements given on the command line, in order
    states,       \* Resolution._states: the stack of State(mapping, criteria)
    phase,        \* position of Resolution.resolve
    pulled,       \* filenames of the candidates the resolver took from a matches sequence
    rootReqs,     \* the requirements handed to Resolver.resolve, in iteration order
    run,          \* 1 or 2: which of two runs on the same inputs is in progress
    firstResult,  \* the pins and graph of run 1, once it has resolved
    cache_directory, \* the cache_directory argument of Provider.__init__
    life,         \* "unbuilt", "alive" or "deleted": where the Provider object is
    cache,        \* the fields _cache and _remove_cache of the Provider
    disk,         \* the directories that exist, and what each path of the cache is
    archives,     \* the Archive objects created so far, with their memoised properties
    counts        \* per filename: downloads of the wheel, reads of its metadata

provVars == <<index, hostPy, provider, downloaded, call>>
resVars == <<entry, callerPy, projExtras, hashSeed, cliReqs, states, phase,
             pulled, rootReqs, run, firstResult>>
archVars == <<cache_directory, life, cache, disk, archives, counts>>
vars == <<index, hostPy, provider, downloaded, call, entry, callerPy, projExtras,
          hashSeed, cliReqs, states, phase, pulled, rootReqs, run, firstResult,
          cache_directory, life, cache, disk, archives, counts>>

----------------------------------------------------------------------------
(* Bounds of the model *)

\* the versions published of a project are 1..MaxVersion
MaxVersion == 2

Versions == 1..MaxVersion
Names == {"a", "b"}
RawNames == {"a", "A", "b"}
Extras == {"x"}
PythonVersions == {38, 39}

----------------------------------------------------------------------------
(* packaging: names, versions, specifiers, markers, requirements *)

canonicalize_name(name) == IF name = "A" THEN "a" ELSE name

VersionStrings == <<"1", "2", "3", "4">>

\* str(version)
VerStr(v) == VersionStrings[v]

InvalidVersion == 0

\* packaging.version.Version(s): the parsed version, or InvalidVersion
Version(s) ==
    IF \E v \in DOMAIN VersionStrings : VersionStrings[v] = s
    THEN CHOOSE v \in DOMAIN VersionStrings : VersionStrings[v] = s
    ELSE InvalidVersion

\* one clause of a specifier set
Clause(op, v) == [op |-> op, v |-> v]

ClauseHolds(cl, version) ==
    CASE cl.op = "==" -> version = cl.v
      [] cl.op = "<"  -> version < cl.v
      [] cl.op = ">=" -> version >= cl.v

\* version in specifier: the conjunction of the clauses
SpecifierContains(specifier, version) ==
    \A cl \in specifier : ClauseHolds(cl, version)

NoMarker == [present |-> FALSE, py |-> 0, extra |-> ""]

\* the marker  python_version >= py and extra == extra  (py = 0, extra = "": clause absent)
Marker(py, extra) == [present |-> TRUE, py |-> py, extra |-> extra]

\* packaging.markers.default_environment()
default_environment == [python_version |-> hostPy, extra |-> ""]

\* Marker.evaluate(environment): the given keys override the default environment
evaluate(marker, environment) ==
    LET current == environment @@ default_environment
    IN  /\ (marker.py = 0 \/ current.python_version >= marker.py)
        /\ (marker.extra = "" \/ current.extra = marker.extra)

Requirement(name, extras, specifier, marker) ==
    [name |-> name, extras |-> extras, specifier |-> specifier, marker |-> marker]

----------------------------------------------------------------------------
(* Archive and WheelArchive *)

\* s.split('.') of a compressed tag
SplitDots(s) ==
    CASE s = "py2.py3" -> {"py2", "py3"}
      [] OTHER -> {s}

\* _WHEEL_NAME_REGEX.match(filename).groupdict(); a filename is the sequence
\* of its dash-separated fields (the .whl suffix left out).  Every group is
\* a greedy .+, so the distribution takes all fields but the last four and
\* the optional build group never takes part in a match.
_WHEEL_NAME_REGEX(filename) ==
    LET n == Len(filename)
    IN  [matched      |-> n >= 5,
         distribution |-> IF n >= 5 THEN SubSeq(filename, 1, n - 4) ELSE <<>>,
         version      |-> IF n >= 5 THEN filename[n - 3] ELSE "",
         python_tag   |-> IF n >= 5 THEN filename[n - 2] ELSE "",
         abi_tag      |-> IF n >= 5 THEN filename[n - 1] ELSE "",
         platform_tag |-> IF n >= 5 THEN filename[n] ELSE ""]

\* WheelArchive.version
ArchiveVersion(link) == _WHEEL_NAME_REGEX(link.filename).version

\* WheelArchive.tags: the Cartesian product of the three compressed tags
tags(link) ==
    LET info == _WHEEL_NAME_REGEX(link.filename)
    IN  {<<p, a, pl>> : p \in SplitDots(info.python_tag),
                        a \in SplitDots(info.abi_tag),
                        pl \in SplitDots(info.platform_tag)}

\* Archive.from_archive_link: the Archive keeps the url and the filename
Archive(link) == [filename |-> link.filename]

\* Archive.metadata: the METADATA of the wheel the url of the archive serves
metadata(archive) ==
    LET links == UNION {{index[n][i] : i \in 1..Len(index[n])} : n \in DOMAIN index}
    IN  (CHOOSE link \in links : link.filename = archive.filename).metadata

\* packaging.tags.sys_tags() of the host
supported_tags == {<<"py3", "none", "any">>, <<"cp39", "cp39", "linux">>}

----------------------------------------------------------------------------
(* Candidate *)

Candidate(name, version, archive, extras) ==
    [name |-> canonicalize_name(name), version |-> version,
     extras |-> extras, archive |-> archive]

\* Candidate.is_valid
MutIsValidNoTags(candidate) ==
    \A extra \in candidate.extras : extra \in metadata(candidate.archive).Provides_Extra

is_valid(candidate) ==
    /\ \A extra \in candidate.extras :
            extra \in metadata(candidate.archive).Provides_Extra
    /\ \E tag \in supported_tags : tag \in tags(candidate.archive)

\* is_valid reads archive.metadata (and so archive.file) once per extra
IsValidReadsMetadata(candidate) == candidate.extras # {}

\* Candidate.dependencies
dependencies(candidate) ==
    LET R == metadata(candidate.archive).Requires_Dist
        unmarked == {r \in R : ~r.marker.present /\ candidate.extras = {}}
        base == IF candidate.extras # {} /\ \E r \in R : r.marker.present
                THEN {Requirement(candidate.name, {}, {}, NoMarker)}
                ELSE {}
        gated == {r \in R :
                    /\ r.marker.present
                    /\ \E extra \in candidate.extras :
                         /\ evaluate(r.marker, [extra |-> extra])
                         /\ ~evaluate(r.marker, [extra |-> ""])}
    IN  unmarked \cup base \cup gated

----------------------------------------------------------------------------
(* Provider *)

DependencyKey(name, extras) == [name |-> name, extras |-> extras]

\* Provider.identify
identify(requirement_or_candidate) ==
    DependencyKey(canonicalize_name(requirement_or_candidate.name),
                  requirement_or_candidate.extras)

\* is_satisfied_by without the test of the specifier
MutSatisfiedNameOnly(requirement, candidate) ==
    canonicalize_name(requirement.name) = candidate.name

\* Provider.is_satisfied_by
is_satisfied_by(requirement, candidate) ==
    IF canonicalize_name(requirement.name) # candidate.name
    THEN FALSE
    ELSE SpecifierContains(requirement.specifier, candidate.version)

\* Provider.get_dependencies
get_dependencies(candidate) == dependencies(candidate)

\* the archive links _get_candidates goes on to build a Candidate from
Enumerable(link) ==
    /\ SpecifierContains(link.requires_python, hostPy)
    /\ _WHEEL_NAME_REGEX(link.filename).matched
    /\ Version(ArchiveVersion(link)) # InvalidVersion

\* Provider._get_candidates: the candidates it yields, in index order
_get_candidates(name, extras) ==
    LET links == SelectSeq(index[name], Enumerable)
        all == [i \in 1..Len(links) |->
                    Candidate(name, Version(ArchiveVersion(links[i])), Archive(links[i]),
                              extras)]
    IN  SelectSeq(all, is_valid)

\* the filenames _get_candidates reads the metadata of (is_valid on each candidate built)
GetCandidatesReads(name, extras) ==
    {index[name][i].filename : i \in
        {j \in 1..Len(index[name]) :
            /\ Enumerable(index[name][j])
            /\ IsValidReadsMetadata(Candidate(name, 0, Archive(index[name][j]), extras))}}

\* sorted(candidates, key=version, reverse=reverse): a stable insertion
InsertSorted(c, s, reverse) ==
    LET after == {i \in 1..Len(s) :
                    IF reverse THEN s[i].version < c.version
                               ELSE s[i].version > c.version}
        k == IF after = {} THEN Len(s) + 1
             ELSE CHOOSE i \in after : \A j \in after : i <= j
    IN  SubSeq(s, 1, k - 1) \o <<c>> \o SubSeq(s, k, Len(s))

RECURSIVE sorted(_, _)
sorted(candidates, reverse) ==
    IF candidates = <<>> THEN <<>>
    ELSE InsertSorted(candidates[Len(candidates)],
                      sorted(SubSeq(candidates, 1, Len(candidates) - 1), reverse),
                      reverse)

\* Provider.sort_candidates and MinimumDependencyProvider.sort_candidates
MutSortAscending(candidates) == sorted(candidates, FALSE)

sort_candidates(candidates) ==
    IF provider = "MinimumDependencyProvider"
    THEN sorted(candidates, FALSE)
    ELSE sorted(candidates, TRUE)

\* find_matches without the filter on the incompatibilities
MutFindMatchesKeepBad(identifier, requirements, incompatibilities) ==
    LET Fits(candidate) ==
            \A r \in requirements : SpecifierContains(r.specifier, candidate.version)
    IN  sort_candidates(SelectSeq(_get_candidates(identifier.name, identifier.extras), Fits))

\* Provider.find_matches
find_matches(identifier, requirements, incompatibilities) ==
    LET bad_versions == {c.version : c \in incompatibilities}
        Fits(candidate) ==
            /\ candidate.version \notin bad_versions
            /\ \A r \in requirements : SpecifierContains(r.specifier, candidate.version)
    IN  sort_candidates(SelectSeq(_get_candidates(identifier.name, identifier.extras), Fits))

\* the filenames a find_matches call reads the metadata of
FindMatchesReads(identifier) == GetCandidatesReads(identifier.name, identifier.extras)

\* Provider.get_preference
get_preference(candidates) == Len(candidates)

----------------------------------------------------------------------------
(* The package index: what the index pages and the wheels hold *)

TagUniversal == <<"py3", "none", "any">>
TagCompressed == <<"py2.py3", "none", "any">>
TagNative == <<"cp39", "cp39", "linux">>
TagForeign == <<"cp38", "cp38", "win">>

\* an archive link of the page of project `name`, with the METADATA of the wheel behind it
Link(name, v, tag, requires_python, requires_dist, provides_extra) ==
    [filename |-> <<name, VerStr(v)>> \o tag,
     requires_python |-> requires_python,
     metadata |-> [Requires_Dist |-> requires_dist, Provides_Extra |-> provides_extra]]

SpecifierChoices == {{}, {Clause("<", 2)}, {Clause(">=", 2)}}
RequiresPythonChoices == {{}, {Clause(">=", 39)}}
MarkerChoices == {Marker(0, "x"), Marker(39, ""), Marker(39, "x")}

\* the Requires-Dist entries a wheel may carry, all on project `other`
RequiresDistUniverse(other) ==
    {Requirement(other, {}, {}, NoMarker), Requirement(other, {}, {Clause("<", 2)}, NoMarker)}
    \cup {Requirement(other, {}, {}, m) : m \in MarkerChoices}

SubsetsUpTo(S, n) == {T \in SUBSET S : Cardinality(T) <= n}

\* at most this many Requires-Dist entries in a wheel
MaxRequiresDist == 2

\* index pages for the direct calls: project a with two releases whose tags,
\* Requires-Python and Provides-Extra vary (and an optional second wheel of
\* release MaxVersion), or whose newest wheel varies in its Requires-Dist
ProviderIndexes ==
    {[n \in Names |->
        IF n = "b" THEN <<>>
        ELSE <<Link("a", 1, t1, {}, {}, p1), Link("a", MaxVersion, t2, rp2, {}, p2)>>
             \o (IF third THEN <<Link("a", MaxVersion, TagNative, {}, {}, {"x"})>> ELSE <<>>)] :
        t1 \in {TagUniversal, TagForeign}, p1 \in SUBSET Extras,
        t2 \in {TagUniversal, TagCompressed, TagForeign}, rp2 \in RequiresPythonChoices,
        p2 \in SUBSET Extras, third \in BOOLEAN}
    \cup
    {[n \in Names |->
        IF n = "b" THEN <<>>
        ELSE <<Link("a", 1, TagUniversal, {}, {}, {"x"}),
               Link("a", MaxVersion, TagUniversal, {}, rd, {"x"})>>] :
        rd \in SubsetsUpTo(RequiresDistUniverse("b"), MaxRequiresDist)}

NoResult == [outcome |-> "", mapping |-> {}, graph |-> {}]

\* the resolver is not running: only direct calls of the Provider happen
\* the entry points give the cache directory /tmp/resolver-cache; its
\* content is followed by the variable downloaded in their resolutions
ArchiveIdle ==
    /\ cache_directory = "/tmp/resolver-cache" /\ life = "alive"
    /\ cache = [_cache |-> "/tmp/resolver-cache", _remove_cache |-> FALSE]
    /\ disk = [dirs |-> {"/tmp/resolver-cache"}, paths |-> <<>>]
    /\ archives = <<>> /\ counts = <<>>

ResolverIdle ==
    /\ entry = "api" /\ callerPy = 0 /\ projExtras = {} /\ hashSeed = 0
    /\ cliReqs = <<>> /\ states = <<>>
    /\ phase = "idle" /\ pulled = {} /\ rootReqs = <<>>
    /\ run = 1 /\ firstResult = NoResult

InitProvider ==
    /\ index \in ProviderIndexes
    /\ hostPy \in PythonVersions
    /\ provider \in {"Provider", "MinimumDependencyProvider"}
    /\ downloaded = {}
    /\ call = [op |-> "none"]
    /\ ResolverIdle
    /\ ArchiveIdle

----------------------------------------------------------------------------
(* Direct calls of the Provider operations: one call on a fresh Provider, *)
(* its arguments drawn from bounded sets                                  *)

RequirementArgs ==
    {Requirement(n, e, s, NoMarker) : n \in RawNames, e \in SUBSET Extras, s \in SpecifierChoices}

\* candidates as _get_candidates builds them, for every project and extras
CandidateArgs ==
    UNION {{_get_candidates(n, e)[i] : i \in 1..Len(_get_candidates(n, e))} :
            n \in Names, e \in SUBSET Extras}

CallIsSatisfiedBy ==
    /\ call.op = "none"
    /\ \E r \in RequirementArgs, c \in CandidateArgs :
        /\ call' = [op |-> "is_satisfied_by", requirement |-> r, candidate |-> c,
                    ret |-> is_satisfied_by(r, c)]
        /\ UNCHANGED <<index, hostPy, provider, downloaded>>
        /\ UNCHANGED resVars
        /\ UNCHANGED archVars

CallGetDependencies ==
    /\ call.op = "none"
    /\ \E c \in CandidateArgs :
        /\ call' = [op |-> "get_dependencies", candidate |-> c, ret |-> get_dependencies(c)]
        /\ downloaded' = downloaded \cup {c.archive.filename}
        /\ UNCHANGED <<index, hostPy, provider>>
        /\ UNCHANGED resVars
        /\ UNCHANGED archVars

CallFindMatches ==
    /\ call.op = "none"
    /\ \E n \in Names, e \in SUBSET Extras :
      \E ss \in SubsetsUpTo(SpecifierChoices, 2) :
        \E incompatibilities \in SubsetsUpTo(
                {_get_candidates(n, e)[i] : i \in 1..Len(_get_candidates(n, e))}, 1) :
            LET identifier == DependencyKey(n, e)
                requirements == {Requirement(n, e, s, NoMarker) : s \in ss}
            IN  /\ call' = [op |-> "find_matches", identifier |-> identifier,
                            requirements |-> requirements,
                            incompatibilities |-> incompatibilities,
                            ret |-> find_matches(identifier, requirements, incompatibilities)]
                /\ downloaded' = downloaded \cup FindMatchesReads(identifier)
                /\ UNCHANGED <<index, hostPy, provider>>
                /\ UNCHANGED resVars
                /\ UNCHANGED archVars

NextProvider == CallIsSatisfiedBy \/ CallGetDependencies \/ CallFindMatches

SpecProvider == InitProvider /\ [][NextProvider]_vars

----------------------------------------------------------------------------
(* The resolver the entry points hand the Provider to: Resolution of the   *)
(* resolvelib library, as section 4.10 of the specification describes it   *)

\* the parent of a top-level requirement
None == [name |-> "", version |-> 0, extras |-> {},
         archive |-> [filename |-> <<>>]]

RequirementInformation(requirement, parent) == [requirement |-> requirement, parent |-> parent]

Criterion(key, candidates, information, incompatibilities) ==
    [key |-> key, candidates |-> candidates, information |-> information,
     incompatibilities |-> incompatibilities]

State(mapping, criteria) == [mapping |-> mapping, criteria |-> criteria]

\* position of `key` in an insertion-ordered dict kept as a sequence of
\* entries with a key field (0: absent)
Position(entries, key) ==
    IF \E i \in 1..Len(entries) : entries[i].key = key
    THEN CHOOSE i \in 1..Len(entries) : entries[i].key = key
    ELSE 0

\* dict[key] = entry: in place when the key is present, appended otherwise
Put(entries, item) ==
    LET i == Position(entries, item.key)
    IN  IF i = 0 THEN Append(entries, item) ELSE [entries EXCEPT ![i] = item]

\* Criterion.iter_requirement
iter_requirement(criterion) == {i.requirement : i \in criterion.information}

\* the iteration order of a set: fixed by the hash seed of the process
RECURSIVE SetToSeq(_)
SetToSeq(S) ==
    IF S = {} THEN <<>>
    ELSE LET x == CHOOSE y \in S : TRUE IN <<x>> \o SetToSeq(S \ {x})

Reverse(s) == [i \in 1..Len(s) |-> s[Len(s) + 1 - i]]

IterationOrder(S, seed) == IF seed = 0 THEN SetToSeq(S) ELSE Reverse(SetToSeq(S))

\* the end of Resolution._add_to_criteria: RequirementsConflicted when the
\* criterion has no candidate, else criteria[identifier] = criterion
Merged(criteria, criterion) ==
    [ok |-> criterion.candidates # <<>>,
     criteria |-> Put(criteria, criterion),
     reads |-> FindMatchesReads(criterion.key)]

\* Resolution._add_to_criteria: the criteria with the requirement merged in,
\* ok = FALSE for RequirementsConflicted; reads are the filenames whose
\* metadata find_matches read
_add_to_criteria(criteria, requirement, parent) ==
    LET identifier == identify(requirement)
        i == Position(criteria, identifier)
        incompatibilities == IF i = 0 THEN {} ELSE criteria[i].incompatibilities
        old == IF i = 0 THEN {} ELSE criteria[i].information
        criterion == Criterion(identifier,
                               find_matches(identifier,
                                            {inf.requirement : inf \in old}
                                                \cup {requirement},
                                            incompatibilities),
                               old \cup {RequirementInformation(requirement, parent)},
                               incompatibilities)
    IN  Merged(criteria, criterion)

\* the loop of Resolution._get_updated_criteria (and of resolve over the
\* root requirements): stops at the first conflict
RECURSIVE AddAll(_, _, _, _)
RECURSIVE AddRest(_, _, _, _, _)
AddAll(criteria, requirements, parent, reads) ==
    IF requirements = <<>> THEN [ok |-> TRUE, criteria |-> criteria, reads |-> reads]
    ELSE AddRest(criteria, requirements, parent, reads,
                 _add_to_criteria(criteria, Head(requirements), parent))

\* one iteration of that loop, `one` being what _add_to_criteria gave
AddRest(criteria, requirements, parent, reads, one) ==
    IF one.ok
    THEN AddAll(one.criteria, Tail(requirements), parent, reads \cup one.reads)
    ELSE [ok |-> FALSE, criteria |-> criteria, reads |-> reads \cup one.reads]

\* dict.pop(key, None) then dict[key] = candidate on the OrderedDict mapping
Pin(mapping, key, candidate) ==
    Append(SelectSeq(mapping, LAMBDA e : e.key # key), [key |-> key, candidate |-> candidate])

\* Resolution._is_current_pin_satisfying
_is_current_pin_satisfying(state, criterion) ==
    LET i == Position(state.mapping, criterion.key)
    IN  /\ i # 0
        /\ \A r \in iter_requirement(criterion) :
                is_satisfied_by(r, state.mapping[i].candidate)

\* Resolution._attempt_to_pin_criterion from candidate number i on: the
\* first candidate whose dependencies merge without conflict is pinned
RECURSIVE _attempt_to_pin_criterion(_, _, _, _, _, _)
RECURSIVE AttemptCandidate(_, _, _, _, _, _, _, _)
_attempt_to_pin_criterion(state, name, i, seed, reads, taken) ==
    LET criterion == state.criteria[Position(state.criteria, name)]
    IN  IF i > Len(criterion.candidates)
        THEN [kind |-> "failed", state |-> state, reads |-> reads, taken |-> taken]
        ELSE
          LET candidate == criterion.candidates[i]
              file == candidate.archive.filename
          IN  AttemptCandidate(state, name, i, seed, taken \cup {file}, criterion,
                               candidate,
                               AddAll(state.criteria,
                                      IterationOrder(get_dependencies(candidate), seed),
                                      candidate, reads \cup {file}))

\* the body of the loop over criterion.candidates, `updated` being what
\* _get_updated_criteria(candidate) gave
AttemptCandidate(state, name, i, seed, taken, criterion, candidate, updated) ==
    IF ~updated.ok
    THEN _attempt_to_pin_criterion(state, name, i + 1, seed, updated.reads, taken)
    ELSE [kind |-> IF \A r \in iter_requirement(criterion) :
                        is_satisfied_by(r, candidate)
                   THEN "pinned" ELSE "inconsistent",
          state |-> State(Pin(state.mapping, name, candidate), updated.criteria),
          reads |-> updated.reads, taken |-> taken]

\* _patch_criteria of Resolution._backtrack: the incompatibilities known to
\* the broken state are applied, in order, to the criteria of the new state
RECURSIVE _patch_criteria(_, _, _)
RECURSIVE PatchOne(_, _, _, _, _)
_patch_criteria(criteria, incompatibilities_from_broken, reads) ==
    IF incompatibilities_from_broken = <<>>
    THEN [ok |-> TRUE, criteria |-> criteria, reads |-> reads]
    ELSE
      LET k == Head(incompatibilities_from_broken).key
          incompatibilities == Head(incompatibilities_from_broken).incompatibilities
          i == Position(criteria, k)
      IN  IF incompatibilities = {} \/ i = 0
          THEN _patch_criteria(criteria, Tail(incompatibilities_from_broken), reads)
          ELSE
            LET criterion == criteria[i]
                all == incompatibilities \cup criterion.incompatibilities
            IN  PatchOne(criteria, incompatibilities_from_broken,
                         reads \cup FindMatchesReads(k), i,
                         Criterion(k, find_matches(k, iter_requirement(criterion), all),
                                   criterion.information, all))

\* the end of one iteration of _patch_criteria: the patch fails when no
\* candidate is left, else criteria[k] is replaced
PatchOne(criteria, incompatibilities_from_broken, reads, i, criterion) ==
    IF criterion.candidates = <<>>
    THEN [ok |-> FALSE, criteria |-> criteria, reads |-> reads]
    ELSE _patch_criteria([criteria EXCEPT ![i] = criterion],
                         Tail(incompatibilities_from_broken), reads)

\* Resolution._backtrack
RECURSIVE _backtrack(_, _)
RECURSIVE BacktrackTo(_, _, _)
_backtrack(stack, reads) ==
    IF Len(stack) < 3 THEN [ok |-> FALSE, states |-> stack, reads |-> reads]
    ELSE
      LET broken_state == stack[Len(stack) - 1]
          rest == SubSeq(stack, 1, Len(stack) - 2)
          last == broken_state.mapping[Len(broken_state.mapping)]
          incompatibilities_from_broken ==
              [i \in 1..Len(broken_state.criteria) |->
                  [key |-> broken_state.criteria[i].key,
                   incompatibilities |-> broken_state.criteria[i].incompatibilities]]
              \o <<[key |-> last.key, incompatibilities |-> {last.candidate}]>>
          base == rest[Len(rest)]
      IN  BacktrackTo(rest, base,
                      _patch_criteria(base.criteria, incompatibilities_from_broken, reads))

\* the end of one iteration of _backtrack: success when the patch worked,
\* else the loop goes on one state further down
BacktrackTo(rest, base, patched) ==
    IF patched.ok
    THEN [ok |-> TRUE,
          states |-> Append(rest, State(base.mapping, patched.criteria)),
          reads |-> patched.reads]
    ELSE _backtrack(Append(rest, base), patched.reads)

\* the keys of the criteria the current pins do not satisfy, in dict order
UnsatisfiedNames(state) ==
    LET unsatisfied == SelectSeq(state.criteria,
                                 LAMBDA c : ~_is_current_pin_satisfying(state, c))
    IN  [i \in 1..Len(unsatisfied) |-> unsatisfied[i].key]

\* min(unsatisfied_names, key=self._get_preference): the first of the least
PreferredName(state) ==
    LET names == UnsatisfiedNames(state)
        pref(k) == get_preference(state.criteria[Position(state.criteria, k)].candidates)
        i == CHOOSE i \in 1..Len(names) :
                /\ \A j \in 1..Len(names) : pref(names[i]) <= pref(names[j])
                /\ \A j \in 1..(i - 1) : pref(names[j]) > pref(names[i])
    IN  names[i]

\* the keys with a route to the root in _build_result: the parent of one of
\* their requirements is None or the pin of a connected key
RECURSIVE Connected(_, _)
Connected(state, known) ==
    LET more == {state.criteria[i].key : i \in
                    {j \in 1..Len(state.criteria) :
                        \E inf \in state.criteria[j].information :
                            \/ inf.parent = None
                            \/ \E m \in 1..Len(state.mapping) :
                                 /\ state.mapping[m].key \in known
                                 /\ state.mapping[m].candidate = inf.parent}}
    IN  IF more \subseteq known THEN known ELSE Connected(state, known \cup more)

\* the key of the root node of Result.graph
RootKey == DependencyKey("", {})

\* _build_result: Result.mapping and Result.graph (as the set of its edges)
_build_result(state) ==
    LET connected == Connected(state, {})
        isPin(p) == \E m \in 1..Len(state.mapping) : state.mapping[m].candidate = p
        keyOf(p) == IF p = None THEN RootKey
                    ELSE state.mapping[CHOOSE m \in 1..Len(state.mapping) :
                                            state.mapping[m].candidate = p].key
        shown == {i \in 1..Len(state.criteria) : state.criteria[i].key \in connected}
    IN  [mapping |-> SelectSeq(state.mapping, LAMBDA e : e.key \in connected),
         graph |-> UNION {{<<keyOf(inf.parent), state.criteria[i].key>> :
                             inf \in {x \in state.criteria[i].information :
                                        x.parent = None \/ isPin(x.parent)}} :
                          i \in shown}]

----------------------------------------------------------------------------
(* The entry points *)

\* the marker_env of get_min_deps: the marker options given, else the default
marker_env ==
    IF callerPy # 0 THEN [python_version |-> callerPy] ELSE default_environment

\* get_min_deps: the set resolver_requirements built from the requirement
\* list; a marked requirement is kept, its marker removed, when the marker
\* holds for some extra of extras | {''}
resolver_requirements(requirements) ==
    LET extras == projExtras \cup {""}
        kept == {i \in 1..Len(requirements) :
                    \/ ~requirements[i].marker.present
                    \/ \E extra \in extras :
                         evaluate(requirements[i].marker, [extra |-> extra] @@ marker_env)}
    IN  {[requirements[i] EXCEPT !.marker = NoMarker] : i \in kept}

\* what the entry point hands to Resolver.resolve, in iteration order:
\* task() of resolver passes the command line on as it is
ResolveArgument ==
    IF entry = "mindeps"
    THEN IterationOrder(resolver_requirements(cliReqs), hashSeed)
    ELSE cliReqs

----------------------------------------------------------------------------
(* Resolution.resolve, one round per step. The entry points pass no         *)
(* max_rounds, and the default of 100 rounds is far above what a resolution *)
(* over the index pages below takes, so ResolutionTooDeep is left out.      *)

Top == states[Len(states)]

\* _push_new_state after the top state has been replaced by `state`
Pushed(state) == SubSeq(states, 1, Len(states) - 1) \o <<state, state>>

\* resolve up to the first round: the root requirements become criteria
Start ==
    /\ phase = "start"
    /\ \E added \in {AddAll(<<>>, ResolveArgument, None, {})} :
           /\ rootReqs' = ResolveArgument
           /\ states' = IF added.ok
                        THEN <<State(<<>>, added.criteria), State(<<>>, added.criteria)>>
                        ELSE <<State(<<>>, <<>>)>>
           /\ phase' = IF added.ok THEN "running" ELSE "impossible"
           /\ downloaded' = downloaded \cup added.reads
    /\ UNCHANGED <<index, hostPy, provider, call, entry, callerPy, projExtras, hashSeed,
                   cliReqs, pulled, run, firstResult>>
    /\ UNCHANGED archVars

Attempt == _attempt_to_pin_criterion(Top, PreferredName(Top), 1, hashSeed, {}, {})

\* a round that pins a candidate
RoundPin ==
    /\ phase = "running"
    /\ UnsatisfiedNames(Top) # <<>>
    /\ \E attempt \in {Attempt} :
        /\ attempt.kind # "failed"
        /\ states' = Pushed(attempt.state)
        /\ phase' = IF attempt.kind = "pinned" THEN "running" ELSE "inconsistent"
        /\ downloaded' = downloaded \cup attempt.reads
        /\ pulled' = pulled \cup attempt.taken
    /\ UNCHANGED <<index, hostPy, provider, call, entry, callerPy, projExtras, hashSeed,
                   cliReqs, rootReqs, run, firstResult>>
    /\ UNCHANGED archVars

\* a round in which no candidate can be pinned and the resolver backtracks
RoundBacktrack ==
    /\ phase = "running"
    /\ UnsatisfiedNames(Top) # <<>>
    /\ \E attempt \in {Attempt} :
        /\ attempt.kind = "failed"
        /\ pulled' = pulled \cup attempt.taken
        /\ \E back \in {_backtrack(states, attempt.reads)} :
            /\ back.ok
            /\ states' = back.states
            /\ downloaded' = downloaded \cup back.reads
    /\ UNCHANGED <<index, hostPy, provider, call, entry, callerPy, projExtras, hashSeed,
                   cliReqs, rootReqs, phase, run, firstResult>>
    /\ UNCHANGED archVars

\* a round in which no candidate can be pinned and nothing is left to undo
RoundImpossible ==
    /\ phase = "running"
    /\ UnsatisfiedNames(Top) # <<>>
    /\ \E attempt \in {Attempt} :
        /\ attempt.kind = "failed"
        /\ pulled' = pulled \cup attempt.taken
        /\ \E back \in {_backtrack(states, attempt.reads)} :
            /\ ~back.ok
            /\ downloaded' = downloaded \cup back.reads
    /\ phase' = "impossible"
    /\ UNCHANGED <<index, hostPy, provider, call, entry, callerPy, projExtras, hashSeed,
                   cliReqs, rootReqs, states, run, firstResult>>
    /\ UNCHANGED archVars

\* every criterion is satisfied by its pin: resolve returns the state
Finish ==
    /\ phase = "running"
    /\ UnsatisfiedNames(Top) = <<>>
    /\ phase' = "resolved"
    /\ UNCHANGED <<index, hostPy, provider, downloaded, call, entry, callerPy, projExtras,
                   hashSeed, cliReqs, rootReqs, states, pulled, run, firstResult>>
    /\ UNCHANGED archVars

Ended == phase \in {"resolved", "impossible", "inconsistent"}

\* what a run hands back: how it ended and, when resolved, Result.mapping
\* (as the set of its items) and Result.graph
Outcome ==
    IF phase = "resolved"
    THEN LET result == _build_result(Top)
         IN  [outcome |-> phase,
              mapping |-> {result.mapping[i] : i \in 1..Len(result.mapping)},
              graph |-> result.graph]
    ELSE [outcome |-> phase, mapping |-> {}, graph |-> {}]

\* the program is run a second time on the same inputs, in a new process
\* (another hash seed) that finds the cache directory as the first left it
Rerun ==
    /\ Ended /\ run = 1
    /\ run' = 2
    /\ firstResult' = Outcome
    /\ hashSeed' = 1 - hashSeed
    /\ phase' = "start"
    /\ states' = <<>>
    /\ rootReqs' = <<>>
    /\ UNCHANGED <<index, hostPy, provider, downloaded, call, entry, callerPy, projExtras,
                   cliReqs, pulled>>
    /\ UNCHANGED archVars

\* a requirement no release satisfies
Unsatisfiable(name) == Requirement(name, {}, {Clause("<", 1)}, NoMarker)

\* the page of a project with release 1 and release MaxVersion as universal
\* wheels that provide the extra x
Releases(name, rdOld, rdNew) ==
    <<Link(name, 1, TagUniversal, {}, rdOld, {"x"}),
      Link(name, MaxVersion, TagUniversal, {}, rdNew, {"x"})>>

\* index pages for the resolutions, projects a and b: the newest a varies in
\* its Requires-Dist; or the releases constrain one another so that a pin
\* has to be undone
ResolveIndexes ==
    {[n \in Names |-> IF n = "a" THEN Releases("a", rdOld, rdNew)
                                 ELSE Releases("b", {}, rdB)] :
        rdOld \in {{}, {Requirement("b", {}, {}, Marker(39, "x"))}},
        rdNew \in SubsetsUpTo(RequiresDistUniverse("b"), MaxRequiresDist),
        rdB \in {{}, {Requirement("a", {}, {Clause("<", 2)}, NoMarker)}}}
    \cup
    {[n \in Names |-> IF n = "a" THEN Releases("a", rdOld, rdNew)
                                 ELSE Releases("b", rdB, {})] :
        rdOld \in {{}, {Unsatisfiable("b")},
                   {Requirement("b", {}, {Clause(">=", 2)}, NoMarker)}},
        rdNew \in {{Requirement("b", {}, {Clause("<", 2)}, NoMarker)}},
        rdB \in {{Unsatisfiable("a")},
                 {Requirement("a", {}, {Clause(">=", 2)}, NoMarker)}}}

\* the requirements one may give on the command line
TopUniverse ==
    {Requirement("a", {}, {}, NoMarker),
     Requirement("a", {}, {Clause("<", 2)}, NoMarker),
     Requirement("a", {"x"}, {}, NoMarker),
     Requirement("b", {}, {}, NoMarker),
     Requirement("b", {}, {Clause(">=", 2)}, NoMarker),
     Requirement("a", {}, {}, Marker(39, ""))}

\* at most this many requirements on the command line
MaxTop == 2

TopLevelChoices == {SetToSeq(T) : T \in SubsetsUpTo(TopUniverse, MaxTop) \ {{}}}

\* the entry point with its options
EntryChoices ==
    {[entry |-> "resolver", provider |-> "Provider", callerPy |-> 0, projExtras |-> {}],
     [entry |-> "mindeps", provider |-> "MinimumDependencyProvider", callerPy |-> 0,
      projExtras |-> {}],
     [entry |-> "mindeps", provider |-> "MinimumDependencyProvider", callerPy |-> 38,
      projExtras |-> {}],
     [entry |-> "mindeps", provider |-> "MinimumDependencyProvider", callerPy |-> 0,
      projExtras |-> {"x"}]}

Init ==
    /\ index \in ResolveIndexes
    /\ hostPy \in PythonVersions
    /\ \E e \in EntryChoices :
        /\ entry = e.entry /\ provider = e.provider
        /\ callerPy = e.callerPy /\ projExtras = e.projExtras
    /\ cliReqs \in TopLevelChoices
    /\ hashSeed = 0
    /\ downloaded = {}
    /\ call = [op |-> "none"]
    /\ states = <<>> /\ phase = "start" /\ pulled = {}
    /\ rootReqs = <<>> /\ run = 1 /\ firstResult = NoResult
    /\ ArchiveIdle

Next ==
    \/ Start
    \/ RoundPin
    \/ RoundBacktrack
    \/ RoundImpossible
    \/ Finish
    \/ Rerun

Spec == Init /\ [][Next]_vars

----------------------------------------------------------------------------
(* The life of one Provider and of the Archive objects it creates: the     *)
(* cache directory, the wheel files in it, the memoised properties         *)

\* cache_directory=None
NoneValue == "None"

\* the cache_directory arguments: None, the empty string, a path
CacheDirectoryChoices == {NoneValue, "", "/srv/cache"}

\* tempfile.mkdtemp(prefix='resolver-cache-')
mkdtemp == "/tmp/resolver-cache-1"

\* bool(cache_directory)
Truthy(directory) == directory \notin {NoneValue, ""}

\* the optional build field of a wheel filename
BuildChoices == {<<>>, <<"1">>}

\* {distribution}-{version}(-{build})?-{python}-{abi}-{platform}.whl
WheelFilename(distribution, v, build, tag) == <<distribution, VerStr(v)>> \o build \o tag

\* an archive link to a wheel built with that filename; the wheel holds the
\* directory {distribution}-{version}.dist-info
BuildLink(name, v, build, tag, provides_extra) ==
    [filename |-> WheelFilename(name, v, build, tag),
     requires_python |-> {},
     metadata |-> [Requires_Dist |-> {}, Provides_Extra |-> provides_extra],
     dist_info |-> <<name, VerStr(v)>>]

\* index pages whose newest wheel of a may carry a build field
ArchiveIndexes ==
    {[n \in Names |->
        IF n = "a"
        THEN <<BuildLink("a", 1, <<>>, TagUniversal, {"x"}),
               BuildLink("a", MaxVersion, build, tag, {"x"})>>
        ELSE <<>>] :
        build \in BuildChoices, tag \in {TagUniversal, TagNative}}

\* WheelArchive.__init__: _wheel_info is the groupdict of the regex; the
\* cached properties file and metadata are not computed yet
WheelArchive(filename) ==
    [filename |-> filename,
     name |-> _WHEEL_NAME_REGEX(filename).distribution,
     version |-> _WHEEL_NAME_REGEX(filename).version,
     file |-> FALSE, metadata |-> FALSE]

\* WheelArchive._dist_info: '{}-{}.dist-info'.format(self.name, self.version)
_dist_info(archive) == archive.name \o <<archive.version>>

\* the archive link an Archive object was built from
LinkOf(archive) ==
    LET links == UNION {{index[n][i] : i \in 1..Len(index[n])} : n \in DOMAIN index}
    IN  CHOOSE link \in links : link.filename = archive.filename

Bump(counter, filename) == [counter EXCEPT ![filename] = @ + 1]

\* Archive.file on first access: ValueError when the path exists and is not
\* a file, a download when it is not a file, then the path is memoised
file(archive, acc) ==
    IF archive.file THEN [acc EXCEPT !.archive = archive]
    ELSE IF acc.disk.paths[archive.filename] = "dir"
    THEN [acc EXCEPT !.archive = archive, !.failed = TRUE]
    ELSE IF acc.disk.paths[archive.filename] = "file"
    THEN [acc EXCEPT !.archive = [archive EXCEPT !.file = TRUE]]
    ELSE [acc EXCEPT !.archive = [archive EXCEPT !.file = TRUE],
                     !.disk.paths[archive.filename] = "file",
                     !.counts.downloads = Bump(@, archive.filename)]

\* the wheel is opened and its dist-info directory looked up; when the
\* directory is not there the metadata is empty or the read raises,
\* depending on the importlib.metadata in use (lenient or not)
ReadDistInfo(acc, lenient) ==
    IF acc.failed THEN acc
    ELSE IF _dist_info(acc.archive) = LinkOf(acc.archive).dist_info \/ lenient
    THEN [acc EXCEPT !.archive.metadata = TRUE,
                     !.counts.reads = Bump(@, acc.archive.filename)]
    ELSE [acc EXCEPT !.failed = TRUE,
                     !.counts.reads = Bump(@, acc.archive.filename)]

\* WheelArchive.metadata: memoised on the Archive object
ArchiveMetadata(archive, acc, lenient) ==
    IF archive.metadata THEN [acc EXCEPT !.archive = archive]
    ELSE ReadDistInfo(file(archive, acc), lenient)

\* the Archive object just handled joins the objects created
Created(acc) == [acc EXCEPT !.created = Append(@, acc.archive)]

\* one iteration of the loop of Provider._get_candidates over the archive
\* links: a new Archive object per link, and is_valid on the Candidate
\* built from it, which reads the metadata when extras were asked for
EnumerateLink(acc, link, extras, lenient) ==
    IF \/ acc.failed
       \/ ~SpecifierContains(link.requires_python, hostPy)
       \/ ~_WHEEL_NAME_REGEX(link.filename).matched
    THEN acc
    ELSE IF extras = {} \/ Version(WheelArchive(link.filename).version) = InvalidVersion
    THEN [acc EXCEPT !.created = Append(@, WheelArchive(link.filename))]
    ELSE Created(ArchiveMetadata(WheelArchive(link.filename), acc, lenient))

RECURSIVE EnumerateLinks(_, _, _, _)
EnumerateLinks(acc, links, extras, lenient) ==
    IF links = <<>> THEN acc
    ELSE EnumerateLinks(EnumerateLink(acc, Head(links), extras, lenient),
                        Tail(links), extras, lenient)

\* what a call works on: the disk, the counters, the objects created
Working == [disk |-> disk, counts |-> counts, created |-> archives,
            archive |-> WheelArchive(<<>>), failed |-> FALSE]

\* at most this many Archive objects are created
MaxArchives == 4

\* at most this many reads of the metadata of one wheel are followed
MaxReads == 2

\* Provider.__init__
ProviderInit ==
    /\ life = "unbuilt"
    /\ life' = "alive"
    /\ \E directory \in {IF Truthy(cache_directory) THEN cache_directory ELSE mkdtemp} :
        /\ cache' = [_cache |-> directory,
                     _remove_cache |-> (cache_directory = NoneValue)]
        /\ disk' = [disk EXCEPT !.dirs = @ \cup {directory}]
    /\ UNCHANGED <<index, hostPy, provider, downloaded, call, cache_directory,
                   archives, counts>>
    /\ UNCHANGED resVars

\* Provider.find_matches, as far as the Archive objects go
FindMatchesArchives ==
    /\ life = "alive"
    /\ \E name \in Names, extras \in SUBSET Extras, lenient \in BOOLEAN :
        /\ Len(archives) + Len(index[name]) <= MaxArchives
        /\ \E done \in {EnumerateLinks(Working, index[name], extras, lenient)} :
            /\ disk' = done.disk
            /\ counts' = done.counts
            /\ archives' = done.created
            /\ call' = [op |-> "find_matches", failed |-> done.failed]
    /\ UNCHANGED <<index, hostPy, provider, downloaded, cache_directory, life, cache>>
    /\ UNCHANGED resVars

\* Candidate.dependencies on the candidate that holds Archive object i
DependenciesOfArchive ==
    /\ life = "alive"
    /\ \E i \in 1..Len(archives), lenient \in BOOLEAN :
        /\ Version(archives[i].version) # InvalidVersion
        /\ counts.reads[archives[i].filename] < MaxReads
        /\ \E done \in {ArchiveMetadata(archives[i], Working, lenient)} :
            /\ disk' = done.disk
            /\ counts' = done.counts
            /\ archives' = [archives EXCEPT ![i] = done.archive]
            /\ call' = [op |-> "get_dependencies", failed |-> done.failed]
    /\ UNCHANGED <<index, hostPy, provider, downloaded, cache_directory, life, cache>>
    /\ UNCHANGED resVars

\* Provider.__del__
ProviderDel ==
    /\ life = "alive"
    /\ life' = "deleted"
    /\ disk' = IF cache._remove_cache
               THEN [dirs |-> disk.dirs \ {cache._cache},
                     paths |-> [f \in DOMAIN disk.paths |-> "absent"]]
               ELSE disk
    /\ UNCHANGED <<index, hostPy, provider, downloaded, call, cache_directory, cache,
                   archives, counts>>
    /\ UNCHANGED resVars

\* the filenames of the wheels of the index
Filenames == UNION {{index[n][i].filename : i \in 1..Len(index[n])} : n \in DOMAIN index}

\* before the Provider is made: a caller's directory may exist already and
\* hold files or directories at the paths of the wheels
InitArchive ==
    /\ index \in ArchiveIndexes
    /\ hostPy = 39
    /\ provider = "Provider"
    /\ downloaded = {}
    /\ call = [op |-> "none"]
    /\ ResolverIdle
    /\ cache_directory \in CacheDirectoryChoices
    /\ life = "unbuilt"
    /\ cache = [_cache |-> "", _remove_cache |-> FALSE]
    /\ \E exists \in BOOLEAN :
        /\ exists => Truthy(cache_directory)
        /\ \E paths \in [Filenames -> {"absent", "file", "dir"}] :
            /\ ~exists => \A f \in Filenames : paths[f] = "absent"
            /\ disk = [dirs |-> IF exists THEN {cache_directory} ELSE {},
                       paths |-> paths]
    /\ archives = <<>>
    /\ counts = [downloads |-> [f \in Filenames |-> 0], reads |-> [f \in Filenames |-> 0]]

NextArchive == ProviderInit \/ FindMatchesArchives \/ DependenciesOfArchive \/ ProviderDel

SpecArchive == InitArchive /\ [][NextArchive]_vars

----------------------------------------------------------------------------
(* Claims about the Provider operations, checked under SpecProvider *)

\* C1: whenever is_satisfied_by(r, c) returns true, c.version is in
\* r.specifier, r.extras is a subset of c.extras, and the canonical name of r
\* equals c.name.
C1_SatisfactionSoundness ==
    (call.op = "is_satisfied_by" /\ call.ret) =>
        /\ SpecifierContains(call.requirement.specifier, call.candidate.version)
        /\ call.requirement.extras \subseteq call.candidate.extras
        /\ canonicalize_name(call.requirement.name) = call.candidate.name

\* C2: the dependencies of a candidate selected with non-empty extras always
\* contain the requirement  name==version  on the candidate's own name, with
\* no extras, whatever the wheel's Requires-Dist entries are.
C2_ExtrasSelfDependency ==
    (call.op = "get_dependencies" /\ call.candidate.extras # {}) =>
        Requirement(call.candidate.name, {},
                    {Clause("==", call.candidate.version)}, NoMarker) \in call.ret

\* a Requires-Dist entry in force for the pair (name, {}) and (name, E):
\* unmarked, or its marker true for the environment or for some e in E
InForce(r, E) ==
    \/ ~r.marker.present
    \/ evaluate(r.marker, [extra |-> ""])
    \/ \E e \in E : evaluate(r.marker, [extra |-> e])

\* C4: every Requires-Dist entry in force appears in the dependencies of
\* exactly one of the candidates (name, {}) and (name, E), E non-empty.
C4_ExactlyOnceCoverage ==
    (call.op = "get_dependencies" /\ call.candidate.extras # {}) =>
        LET c == call.candidate
            base == Candidate(c.name, c.version, c.archive, {})
        IN  \A r \in metadata(c.archive).Requires_Dist :
                InForce(r, c.extras) =>
                    ((r \in call.ret) # (r \in dependencies(base)))

\* the wheel behind a candidate carries a supported tag: some triple of the
\* dot-separated tokens of its last three filename fields is a supported tag
HasSupportedTag(filename) ==
    LET n == Len(filename)
    IN  \E p \in SplitDots(filename[n - 2]), a \in SplitDots(filename[n - 1]),
           pl \in SplitDots(filename[n]) : <<p, a, pl>> \in supported_tags

\* C7: every candidate find_matches returns is valid: each extra it was
\* selected with is in the wheel's Provides-Extra, and the wheel has a
\* supported tag.
C7_ReturnedCandidatesValid ==
    call.op = "find_matches" =>
        \A i \in 1..Len(call.ret) :
            /\ call.ret[i].extras \subseteq metadata(call.ret[i].archive).Provides_Extra
            /\ call.ret[i].extras = call.identifier.extras
            /\ HasSupportedTag(call.ret[i].archive.filename)

\* C7 witness: find_matches for extras {x} returned a candidate while the
\* index page also held a wheel that is not valid for {x}.
C7_Witness ==
    /\ call.op = "find_matches"
    /\ call.identifier.extras = {"x"}
    /\ call.ret # <<>>
    /\ \E i \in 1..Len(index[call.identifier.name]) :
         LET link == index[call.identifier.name][i]
         IN  \/ ~HasSupportedTag(link.filename)
             \/ "x" \notin link.metadata.Provides_Extra

\* C8: find_matches returns exactly the enumerated candidates whose version
\* is not the version of an incompatibility and is inside every requirement's
\* specifier, by version non-increasing for Provider and non-decreasing for
\* MinimumDependencyProvider.
C8_FindMatchesResult ==
    call.op = "find_matches" =>
        LET enumerated == _get_candidates(call.identifier.name, call.identifier.extras)
            bad == {c.version : c \in call.incompatibilities}
            want == {enumerated[i] : i \in
                        {j \in 1..Len(enumerated) :
                            /\ enumerated[j].version \notin bad
                            /\ \A r \in call.requirements :
                                 SpecifierContains(r.specifier, enumerated[j].version)}}
            ret == call.ret
        IN  /\ {ret[i] : i \in 1..Len(ret)} = want
            /\ Len(ret) = Cardinality(want)
            /\ \A i, j \in 1..Len(ret) :
                 i < j => IF provider = "MinimumDependencyProvider"
                          THEN ret[i].version <= ret[j].version
                          ELSE ret[i].version >= ret[j].version

\* C8 witness: with releases 1 and MaxVersion both matching, the default
\* Provider returned MaxVersion first and release 1 last.
C8_Witness ==
    /\ call.op = "find_matches"
    /\ provider = "Provider"
    /\ Len(call.ret) >= 2
    /\ call.ret[1].version = MaxVersion
    /\ call.ret[Len(call.ret)].version = 1

\* C8 witness for the minimum variant is the mirror image
C8_WitnessMinimum ==
    /\ call.op = "find_matches"
    /\ provider = "MinimumDependencyProvider"
    /\ Len(call.ret) >= 2
    /\ call.ret[1].version = 1
    /\ call.ret[Len(call.ret)].version = MaxVersion

----------------------------------------------------------------------------
(* Claims about a resolution, checked under Spec *)

\* Result.mapping of a resolution that succeeded, in dict order
Pins == IF phase = "resolved" THEN _build_result(Top).mapping ELSE <<>>

PinSet == {Pins[i] : i \in 1..Len(Pins)}

\* C3: in every successful resolution, a key (name, E) with E non-empty
\* pinned at version v means the key (name, {}) is pinned too, at the same
\* version v.
C3_ExtrasNeverForkBase ==
    \A e \in PinSet :
        e.key.extras # {} =>
            \E f \in PinSet : /\ f.key = DependencyKey(e.key.name, {})
                              /\ f.candidate.version = e.candidate.version

\* C5: a wheel file is downloaded only if the resolver pulled the candidate
\* built from it out of a matches sequence.
C5_LazyDownload == downloaded \subseteq pulled

\* the requirements of a successful resolution: the top-level ones and the
\* dependencies of the pinned candidates
ResultRequirements ==
    {rootReqs[i] : i \in 1..Len(rootReqs)}
    \cup UNION {dependencies(e.candidate) : e \in PinSet}

\* C6: in every successful resolution the version of each pin (k, c) is in
\* the specifier of every top-level or pinned-parent requirement whose key
\* is k, and no key is pinned twice.
C6_Closure ==
    /\ \A e \in PinSet : \A r \in ResultRequirements :
            identify(r) = e.key => SpecifierContains(r.specifier, e.candidate.version)
    /\ \A i, j \in 1..Len(Pins) : Pins[i].key = Pins[j].key => i = j

\* C6 witness: a resolution succeeded in which a pinned candidate requires
\* a version range of another pinned key, and a release outside that range
\* is on the index.
C6_Witness ==
    /\ phase = "resolved"
    /\ \E parent \in PinSet, e \in PinSet :
         \E r \in dependencies(parent.candidate) :
            /\ identify(r) = e.key
            /\ r.specifier # {}
            /\ \E v \in Versions : ~SpecifierContains(r.specifier, v)

\* C6 witness: a resolution succeeded after a pin had been undone.
C6_WitnessBacktracked ==
    /\ phase = "resolved"
    /\ \E i \in 1..Len(Top.criteria) : Top.criteria[i].incompatibilities # {}

\* C9: two runs on the same index, tags, ordering policy and requirements
\* that both succeed give the same pins and the same dependency graph,
\* whatever the iteration order of the sets.
C9_Determinism ==
    (run = 2 /\ phase = "resolved" /\ firstResult.outcome = "resolved") =>
        /\ Outcome.mapping = firstResult.mapping
        /\ Outcome.graph = firstResult.graph

\* the marker environment the caller of the entry point supplied
CallerEnvironment ==
    IF entry = "mindeps" THEN marker_env @@ default_environment ELSE default_environment

\* the clauses of a marker on variables other than extra hold
NonExtraHolds(marker, environment) ==
    marker.py = 0 \/ environment.python_version >= marker.py

\* C10: every requirement that contributes a criterion, top-level or a
\* Requires-Dist entry of a candidate, has no marker or a marker whose
\* non-extra variables are true under the caller's marker environment.
C10_MarkerGate ==
    phase \in {"running", "resolved"} =>
        \A i \in 1..Len(Top.criteria) : \A inf \in Top.criteria[i].information :
            \/ ~inf.requirement.marker.present
            \/ NonExtraHolds(inf.requirement.marker, CallerEnvironment)

----------------------------------------------------------------------------
(* Claims about the cache and the Archive objects, checked under SpecArchive *)

\* C11: whatever the cache_directory argument (None, the empty string, a
\* path), once the Provider is torn down the cache directory is gone if and
\* only if the Provider made it itself as a fresh temporary directory.
C11_CacheLifecycle ==
    life = "deleted" =>
        ((cache._cache \notin disk.dirs) <=> (cache._cache = mkdtemp))

\* the metadata of each wheel has been read at most once, and each wheel
\* downloaded at most once
AtMostOnce ==
    \A f \in Filenames : counts.reads[f] <= 1 /\ counts.downloads[f] <= 1

\* a step downloads no wheel whose path exists in the cache, as a regular
\* file or as something else
NoDownloadOverExisting ==
    \A f \in Filenames :
        disk.paths[f] # "absent" => counts'.downloads[f] = counts.downloads[f]

\* C12: within one process the metadata of a wheel is read from the wheel at
\* most once and the wheel is downloaded at most once, however often its
\* link is enumerated; a path that exists in the cache is never downloaded
\* again (a regular file is used, anything else is a failure).
C12_FetchOnce == []AtMostOnce /\ [][NoDownloadOverExisting]_vars

\* C13: for every wheel filename {distribution}-{version}(-{build})?-
\* {python}-{abi}-{platform}.whl, with the build field or without, the
\* name of the WheelArchive is the distribution field and its version the
\* version field, so the Candidate gets the real version and the dist-info
\* directory looked up is the one the wheel holds.
C13_WheelFilenameDecoding ==
    \A i \in 1..Len(archives) :
        \A d \in Names, v \in Versions, build \in BuildChoices,
           tag \in {TagUniversal, TagNative} :
            archives[i].filename = WheelFilename(d, v, build, tag) =>
                /\ archives[i].name = <<d>>
                /\ archives[i].version = VerStr(v)
                /\ Version(archives[i].version) = v
                /\ _dist_info(archives[i]) = LinkOf(archives[i]).dist_info

====
